---- MODULE Spec2Model ----
(***************************************************************************)
(* Health-record synchronisation handlers of the mini-program backend:     *)
(*   api/health/sync.js     POST  {action: upload | download}              *)
(*   api/health/records.js  GET   listing of the caller's records          *)
(* Every `await query(...)` is one step against the shared table           *)
(* health_records; a handler runs from one await to the next.              *)
(***************************************************************************)
EXTENDS Integers, Sequences, FiniteSets, TLC

VARIABLES store, sent, clock, req, prev, client

vars == <<store, sent, clock, req, prev, client>>

(***************************************************************************)
(* Bounds of the model.                                                    *)
(***************************************************************************)
MaxBatch == 2
MaxClock == 2
MaxLimit == 1

Procs == {"p1", "p2"}
Owners == {"A", "B"}

(***************************************************************************)
(* JSON values carried by answers / result.  A value is a tag and the      *)
(* numbers it holds: an array of numbers, an object with the one key       *)
(* "score" (or no key), null, or undefined (the property is absent).       *)
(***************************************************************************)
Undefined == [t |-> "undefined", v |-> <<>>]
JNull == [t |-> "null", v |-> <<>>]
Arr(s) == [t |-> "array", v |-> s]
Obj(s) == [t |-> "object", v |-> s]

(* A database column holding SQL NULL, and the JavaScript value undefined   *)
(* where a text is expected.                                               *)
Null == <<"NULL">>
NoText == <<"undefined">>

Digits == <<"0", "1", "2", "3", "4", "5", "6", "7", "8", "9">>
NumTok(n) == Digits[n + 1]
IsNumTok(tok) == \E n \in 0..9 : Digits[n + 1] = tok
TokNum(tok) == CHOOSE n \in 0..9 : Digits[n + 1] = tok

RECURSIVE JoinNums(_)
JoinNums(s) ==
  IF s = <<>> THEN <<>>
  ELSE IF Len(s) = 1 THEN <<NumTok(s[1])>>
  ELSE <<NumTok(s[1]), ",">> \o JoinNums(Tail(s))

(* JSON.stringify: undefined stays undefined, everything else becomes text *)
(* (a sequence of tokens).                                                 *)
StringifyDropLast(j) ==
  IF j.t = "undefined" THEN NoText
  ELSE IF j.t = "null" THEN <<"null">>
  ELSE IF j.t = "array"
    THEN <<"[">> \o JoinNums(SubSeq(j.v, 1, Len(j.v) - 1)) \o <<"]">>
  ELSE IF j.v = <<>> THEN <<"{", "}">>
  ELSE <<"{", "\"score\"", ":", NumTok(j.v[1]), "}">>

Stringify(j) ==
  IF j.t = "undefined" THEN NoText
  ELSE IF j.t = "null" THEN <<"null">>
  ELSE IF j.t = "array" THEN <<"[">> \o JoinNums(j.v) \o <<"]">>
  ELSE IF j.v = <<>> THEN <<"{", "}">>
  ELSE <<"{", "\"score\"", ":", NumTok(j.v[1]), "}">>

(* The elements of a comma-separated list of numbers, or a syntax error.   *)
RECURSIVE ParseNums(_)
ParseNums(s) ==
  IF s = <<>> THEN [ok |-> FALSE, v |-> <<>>]
  ELSE IF ~IsNumTok(s[1]) THEN [ok |-> FALSE, v |-> <<>>]
  ELSE IF Len(s) = 1 THEN [ok |-> TRUE, v |-> <<TokNum(s[1])>>]
  ELSE IF s[2] # "," THEN [ok |-> FALSE, v |-> <<>>]
  ELSE LET rest == ParseNums(SubSeq(s, 3, Len(s)))
       IN  [ok |-> rest.ok,
            v |-> IF rest.ok THEN <<TokNum(s[1])>> \o rest.v ELSE <<>>]

(* JSON.parse: the value of a text, or ok = FALSE where it throws          *)
(* SyntaxError.                                                            *)
JSONParse(s) ==
  IF s = <<"null">> THEN [ok |-> TRUE, val |-> JNull]
  ELSE IF s = <<"[", "]">> THEN [ok |-> TRUE, val |-> Arr(<<>>)]
  ELSE IF s = <<"{", "}">> THEN [ok |-> TRUE, val |-> Obj(<<>>)]
  ELSE IF Len(s) >= 3 /\ s[1] = "[" /\ s[Len(s)] = "]"
    THEN LET body == ParseNums(SubSeq(s, 2, Len(s) - 1))
         IN  [ok |-> body.ok, val |-> IF body.ok THEN Arr(body.v) ELSE Undefined]
  ELSE IF Len(s) = 5 /\ s[1] = "{" /\ s[2] = "\"score\"" /\ s[3] = ":"
          /\ IsNumTok(s[4]) /\ s[5] = "}"
    THEN [ok |-> TRUE, val |-> Obj(<<TokNum(s[4])>>)]
  ELSE [ok |-> FALSE, val |-> Undefined]

(* column || dflt : a NULL or empty column is falsy.                       *)
OrDefault(col, dflt) == IF col = Null \/ col = <<>> THEN dflt ELSE col

ParseAnswers(col) == JSONParse(OrDefault(col, <<"[", "]">>))
ParseResult(col) == JSONParse(OrDefault(col, <<"{", "}">>))


(***************************************************************************)
(* Client records (wire form) the requests draw their batches from.        *)
(* timestamp = 0 stands for an absent client timestamp.                    *)
(***************************************************************************)
ClientRecord(id, type, name, date, answers, result, timestamp) ==
  [id |-> id, testType |-> type, testName |-> name, date |-> date,
   answers |-> answers, result |-> result, timestamp |-> timestamp]

Catalogue ==
  { ClientRecord("x", "t1", "n1", 1, Arr(<<1, 2, 3>>), Obj(<<5>>), 0),
    ClientRecord("y", "t2", "n2", 2, Undefined, Undefined, 1) }

Batches == UNION { [1..n -> Catalogue] : n \in 0..MaxBatch }

NonEmptyBatches == Batches \ {<<>>}

Tokens == {"none", "malformed", "expired"} \cup Owners

(* Rows of health_records already present when the handlers are deployed:  *)
(* nothing, or one historical row of owner A whose answers text was cut.   *)
LegacyRow ==
  [user_id |-> "A", record_id |-> "old", test_type |-> "t1",
   test_name |-> "n1", test_date |-> 1, answers |-> <<"[", "1", ",">>,
   result |-> Null, created_at |-> 1, updated_at |-> 1]

InitialStores == { <<>>, <<LegacyRow>> }

(***************************************************************************)
(* Responses.                                                              *)
(***************************************************************************)
NoData ==
  [kind |-> "none", uploaded |-> 0, skipped |-> 0, total |-> 0,
   records |-> <<>>, syncTime |-> 0]

NoResponse ==
  [status |-> 0, body |-> FALSE, success |-> FALSE, message |-> "",
   error |-> "", data |-> NoData]

(* res.status(200).end() *)
EndResponse(status) == [NoResponse EXCEPT !.status = status]

(* res.status(s).json({ success: false, message, error }) *)
ErrorResponse(status, message, error) ==
  [status |-> status, body |-> TRUE, success |-> FALSE, message |-> message,
   error |-> error, data |-> NoData]

(* res.status(200).json({ success: true, data }) *)
OkResponse(data) ==
  [status |-> 200, body |-> TRUE, success |-> TRUE, message |-> "",
   error |-> "", data |-> data]

(***************************************************************************)
(* verifyToken: the decoded userId, or the name and message of the error   *)
(* thrown (a missing token throws a plain Error; jwt.verify throws         *)
(* JsonWebTokenError for a malformed or badly signed token and             *)
(* TokenExpiredError for an expired one).                                  *)
(***************************************************************************)
verifyTokenDecodeOnly(token) ==
  IF token = "none"
    THEN [ok |-> FALSE, userId |-> "", name |-> "Error",
          message |-> "no token provided"]
  ELSE IF token = "malformed"
    THEN [ok |-> FALSE, userId |-> "", name |-> "JsonWebTokenError",
          message |-> "jwt malformed"]
  ELSE IF token = "expired"
    THEN [ok |-> TRUE, userId |-> "A", name |-> "", message |-> ""]
  ELSE [ok |-> TRUE, userId |-> token, name |-> "", message |-> ""]

verifyToken(token) ==
  IF token = "none"
    THEN [ok |-> FALSE, userId |-> "", name |-> "Error",
          message |-> "no token provided"]
  ELSE IF token = "malformed"
    THEN [ok |-> FALSE, userId |-> "", name |-> "JsonWebTokenError",
          message |-> "jwt malformed"]
  ELSE IF token = "expired"
    THEN [ok |-> FALSE, userId |-> "", name |-> "TokenExpiredError",
          message |-> "jwt expired"]
  ELSE [ok |-> TRUE, userId |-> token, name |-> "", message |-> ""]

(* The catch block of sync.js. *)
SyncCatch(name, message) ==
  IF name = "JsonWebTokenError"
    THEN ErrorResponse(401, "invalid token", "")
    ELSE ErrorResponse(500, "server error", message)

(* The catch block of records.js. *)
RecordsCatch(name, message) ==
  IF name = "JsonWebTokenError"
    THEN ErrorResponse(401, "invalid token", "")
    ELSE ErrorResponse(500, "server error", "")

Catch(endpoint, name, message) ==
  IF endpoint = "sync" THEN SyncCatch(name, message)
  ELSE RecordsCatch(name, message)


(***************************************************************************)
(* The statements the handlers send to the table health_records.           *)
(***************************************************************************)

(* The store adapter binds an undefined parameter as NULL. *)
Bind(param) == IF param = NoText THEN Null ELSE param

(* The column updated_at is assigned by the store: the time of the write.  *)
UpdatedAtDefault(now) == now

(* SELECT id FROM health_records WHERE record_id = ? *)
ExistingNever(st, recordId) == {}

Existing(st, recordId) == { i \in DOMAIN st : st[i].record_id = recordId }

(* INSERT INTO health_records (...) VALUES (...): the row written for one  *)
(* client record; updated_at is the column's default, the time of the      *)
(* insert.                                                                 *)
InsertedRow(userId, record, now) ==
  [user_id |-> userId, record_id |-> record.id, test_type |-> record.testType,
   test_name |-> record.testName, test_date |-> record.date,
   answers |-> Bind(Stringify(record.answers)),
   result |-> Bind(Stringify(record.result)),
   created_at |-> IF record.timestamp # 0 THEN record.timestamp ELSE now,
   updated_at |-> UpdatedAtDefault(now)]

(* SELECT * FROM health_records WHERE user_id = ? [AND updated_at > ?]     *)
(* (lastSyncTime = 0 is the absent, falsy, value).                         *)
DownloadWhereAnyUser(st, userId, lastSyncTime) ==
  { i \in DOMAIN st : lastSyncTime # 0 => st[i].updated_at > lastSyncTime }

DownloadWhereInclusive(st, userId, lastSyncTime) ==
  { i \in DOMAIN st :
      /\ st[i].user_id = userId
      /\ lastSyncTime # 0 => st[i].updated_at >= lastSyncTime }

DownloadWhere(st, userId, lastSyncTime) ==
  { i \in DOMAIN st :
      /\ st[i].user_id = userId
      /\ lastSyncTime # 0 => st[i].updated_at > lastSyncTime }

(* SELECT * FROM health_records WHERE user_id = ? [AND test_type = ?]      *)
(* (testType = "" is the absent value).                                    *)
ListWhere(st, userId, testType) ==
  { i \in DOMAIN st :
      /\ st[i].user_id = userId
      /\ testType # "" => st[i].test_type = testType }

(* Without ORDER BY: the matching rows in the order they were inserted.    *)
OrderByInsertion(st, rows) ==
  { s \in [1..Cardinality(rows) -> rows] :
      \A j, k \in DOMAIN s : j < k => s[j] < s[k] }

(* ORDER BY test_date DESC: the orders the store may return the matching   *)
(* rows in (rows of equal test_date come in any order).                    *)
OrderByTestDateDesc(st, rows) ==
  { s \in [1..Cardinality(rows) -> rows] :
      /\ \A j, k \in DOMAIN s : j # k => s[j] # s[k]
      /\ \A j \in DOMAIN s :
           j < Len(s) => st[s[j]].test_date >= st[s[j + 1]].test_date }

(* LIMIT ? OFFSET ? *)
LimitOffset(s, limit, offset) ==
  SubSeq(s, offset + 1, IF offset + limit < Len(s) THEN offset + limit ELSE Len(s))

(* The wire form of one stored row (the body of cloudRecords.map).         *)
Formatted(row) ==
  [id |-> row.record_id, testType |-> row.test_type,
   testName |-> row.test_name, date |-> row.test_date,
   timestamp |-> row.test_date * 1000,
   answers |-> ParseAnswers(row.answers).val,
   result |-> ParseResult(row.result).val]

(* JSON.parse throws on one of the row's columns. *)
FormatThrows(row) ==
  ~ParseAnswers(row.answers).ok \/ ~ParseResult(row.result).ok


(***************************************************************************)
(* State.                                                                  *)
(*   store  the table health_records, in insertion order                   *)
(*   sent   for each row, the caller and the client record it was inserted *)
(*          from (history); a historical row has the record NoRecord       *)
(*   clock  the server's time                                              *)
(*   req    the request each worker is handling, and where its handler is  *)
(*   prev   the last request answered, when it was a successful upload     *)
(*   client the mini-program of one owner keeping itself in step with the  *)
(*          store: the syncTime it has persisted and the rows it has got   *)
(***************************************************************************)
NoRecord == ClientRecord("", "", "", 0, Undefined, Undefined, 0)

Idle ==
  [pc |-> "idle", endpoint |-> "", method |-> "", token |-> "", action |-> "",
   recordsKind |-> "", records |-> <<>>, lastSyncTime |-> 0, testType |-> "",
   limit |-> 0, offset |-> 0, userId |-> "", i |-> 0, successCount |-> 0,
   skipCount |-> 0, calls |-> <<>>, inserted |-> {}, cloud |-> <<>>,
   failed |-> FALSE, store0 |-> <<>>, resp |-> NoResponse]

NoPrev == [upload |-> FALSE, userId |-> "", records |-> <<>>]

(* The client before its first download: no syncTime persisted. *)
NewClient == [token |-> "A", syncTime |-> 0, received |-> {}]

Init ==
  /\ store \in InitialStores
  /\ sent = [i \in DOMAIN store |-> [by |-> store[i].user_id, record |-> NoRecord]]
  /\ clock = 1
  /\ req = [p \in Procs |-> Idle]
  /\ prev = NoPrev
  /\ client = NewClient

(* The request as it arrives, before the handler has run. *)
Arrived(endpoint, method, token) ==
  [Idle EXCEPT !.endpoint = endpoint, !.method = method, !.token = token,
               !.store0 = store]

Done(r, resp) == [r EXCEPT !.pc = "done", !.resp = resp]

(* The upload response, once the loop has run off the end of the batch. *)
UploadCounts(r) ==
  OkResponse([NoData EXCEPT !.kind = "counts", !.uploaded = r.successCount,
                            !.skipped = r.skipCount, !.total = Len(r.records)])

(* for (const record of records): the handler at record i, or finished. *)
LoopAt(r, i) ==
  IF i > Len(r.records) THEN Done([r EXCEPT !.i = i], UploadCounts([r EXCEPT !.i = i]))
  ELSE [r EXCEPT !.pc = "check", !.i = i]

(* if (!records || !Array.isArray(records)) *)
RecordsRejected(r) == r.recordsKind # "array"

(* sync.js from its first line to its first await. *)
SyncStart(r) ==
  IF r.method = "OPTIONS" THEN Done(r, EndResponse(200))
  ELSE IF r.method # "POST"
    THEN Done(r, ErrorResponse(405, "only POST is supported", ""))
  ELSE LET decoded == verifyToken(r.token)
           u == [r EXCEPT !.userId = decoded.userId]
       IN  IF ~decoded.ok THEN Done(r, SyncCatch(decoded.name, decoded.message))
           ELSE IF r.recordsKind = "nobody"
             THEN Done(u, SyncCatch("TypeError", "cannot destructure req.body"))
           ELSE IF r.action = "upload"
             THEN IF RecordsRejected(u)
                    THEN Done(u, ErrorResponse(400, "bad records format", ""))
                    ELSE LoopAt(u, 1)
           ELSE IF r.action = "download" THEN [u EXCEPT !.pc = "query"]
           ELSE Done(u, ErrorResponse(400, "invalid action", ""))

(* records.js from its first line to its first await. *)
RecordsStart(r) ==
  IF r.method = "OPTIONS" THEN Done(r, EndResponse(200))
  ELSE IF r.method # "GET"
    THEN Done(r, ErrorResponse(405, "only GET is supported", ""))
  ELSE LET decoded == verifyToken(r.token)
       IN  IF ~decoded.ok
             THEN Done(r, RecordsCatch(decoded.name, decoded.message))
             ELSE [r EXCEPT !.userId = decoded.userId, !.pc = "query"]

DefaultLimit == 50

(* What a request is drawn from: the methods the handlers tell apart, the  *)
(* values of body.action, of query.testType ("" for none) and of           *)
(* query.limit (absent, it is DefaultLimit).                               *)
Methods == {"OPTIONS", "GET", "POST"}

Actions == {"upload", "download", "other"}

TestTypes == {"", "t1", "t2"}

Limits == {MaxLimit, DefaultLimit}

(* A request to /api/health/sync, its inputs drawn from the given sets,    *)
(* arrives at an idle worker.  A request the method check turns away       *)
(* carries an empty body; of a request without a body (req.body is         *)
(* undefined, recordsKind "nobody") no action can be read.                 *)
ReceiveSyncFrom(p, methods, tokens, actions, bodies, sinces) ==
  /\ req[p].pc = "idle"
  /\ \E method \in methods, token \in tokens, action \in actions,
        body \in bodies, since \in sinces :
       /\ method # "POST" => action = "other"
       /\ action # "upload" => body[1] \in {"missing", "nobody"}
       /\ body[1] = "nobody" => method = "POST" /\ action = "other"
       /\ action # "download" => since = 0
       /\ req' = [req EXCEPT ![p] =
            SyncStart([Arrived("sync", method, token) EXCEPT
                         !.action = action, !.recordsKind = body[1],
                         !.records = body[2], !.lastSyncTime = since])]
  /\ UNCHANGED <<store, sent, clock, prev, client>>

Bodies ==
  ({"nobody", "missing", "notarray"} \X {<<>>}) \cup ({"array"} \X Batches)

(* Any request to /api/health/sync arrives at an idle worker. *)
ReceiveSync(p) ==
  ReceiveSyncFrom(p, Methods, Tokens, Actions, Bodies, 0..MaxClock)

(* A request to /api/health/records arrives at an idle worker.  A request  *)
(* the method check turns away carries no query string.                    *)
ReceiveRecords(p) ==
  /\ req[p].pc = "idle"
  /\ \E method \in Methods, token \in Tokens, testType \in TestTypes,
        limit \in Limits, offset \in 0..1 :
       /\ method # "GET" => testType = "" /\ limit = DefaultLimit /\ offset = 0
       /\ req' = [req EXCEPT ![p] =
            RecordsStart([Arrived("records", method, token) EXCEPT
                            !.testType = testType, !.limit = limit,
                            !.offset = offset])]
  /\ UNCHANGED <<store, sent, clock, prev, client>>

(* One more statement sent to the store by request r, for batch position i *)
(* (0 for the one statement of a download or listing).                     *)
Called(r, what) == [r EXCEPT !.calls = Append(@, <<r.i, what>>)]

(* A record found to exist has its row's updated_at set to now. *)
CheckExistingTouch(p) ==
  /\ req[p].pc = "check"
  /\ LET r == Called(req[p], "select")
         existing == Existing(store, r.records[r.i].id)
     IN  /\ req' = [req EXCEPT ![p] =
              IF existing # {}
                THEN LoopAt([r EXCEPT !.skipCount = @ + 1], r.i + 1)
                ELSE [r EXCEPT !.pc = "insert"]]
         /\ store' = [i \in DOMAIN store |->
              IF i \in existing THEN [store[i] EXCEPT !.updated_at = clock]
              ELSE store[i]]
  /\ UNCHANGED <<sent, clock, prev, client>>

(* The existence check of record i returns. *)
CheckExisting(p) ==
  /\ req[p].pc = "check"
  /\ LET r == Called(req[p], "select")
         existing == Existing(store, r.records[r.i].id)
     IN  req' = [req EXCEPT ![p] =
           IF existing # {}
             THEN LoopAt([r EXCEPT !.skipCount = @ + 1], r.i + 1)
             ELSE [r EXCEPT !.pc = "insert"]]
  /\ UNCHANGED <<store, sent, clock, prev, client>>

(* INSERT IGNORE under a unique key on record_id: a row whose id is there  *)
(* is dropped by the store, and still counted by the handler.              *)
InsertRecordIgnore(p) ==
  /\ req[p].pc = "insert"
  /\ LET r == Called(req[p], "insert")
         record == r.records[r.i]
         dropped == Existing(store, record.id) # {}
     IN  /\ store' = IF dropped THEN store
                     ELSE Append(store, InsertedRow(r.userId, record, clock))
         /\ sent' = IF dropped THEN sent
                    ELSE Append(sent, [by |-> r.token, record |-> record])
         /\ req' = [req EXCEPT ![p] =
              LoopAt([r EXCEPT !.successCount = @ + 1,
                               !.inserted = IF dropped THEN @
                                            ELSE @ \cup {Len(store) + 1}],
                     r.i + 1)]
  /\ UNCHANGED <<clock, prev, client>>

(* The insert of record i returns. *)
InsertRecord(p) ==
  /\ req[p].pc = "insert"
  /\ LET r == Called(req[p], "insert")
         record == r.records[r.i]
     IN  /\ store' = Append(store, InsertedRow(r.userId, record, clock))
         /\ sent' = Append(sent, [by |-> r.token, record |-> record])
         /\ req' = [req EXCEPT ![p] =
              LoopAt([r EXCEPT !.successCount = @ + 1,
                               !.inserted = @ \cup {Len(store) + 1}],
                     r.i + 1)]
  /\ UNCHANGED <<clock, prev, client>>

(* The rows the download or the listing gets back from the store. *)
CloudRecords(r) ==
  IF r.endpoint = "sync"
    THEN OrderByTestDateDesc(store, DownloadWhere(store, r.userId, r.lastSyncTime))
    ELSE { LimitOffset(s, r.limit, r.offset) :
             s \in OrderByTestDateDesc(store, ListWhere(store, r.userId, r.testType)) }

(* The success response of the download (syncTime) or the listing (total). *)
RecordsResponse(r, cloud, now) ==
  LET formatted == [k \in DOMAIN cloud |-> Formatted(store[cloud[k]])]
  IN  OkResponse([NoData EXCEPT
        !.kind = IF r.endpoint = "sync" THEN "download" ELSE "list",
        !.records = formatted,
        !.total = IF r.endpoint = "sync" THEN 0 ELSE Len(formatted),
        !.syncTime = IF r.endpoint = "sync" THEN now ELSE 0])

(* The query of a download or a listing is run by the store. *)
QueryRecords(p) ==
  /\ req[p].pc = "query"
  /\ \E cloud \in CloudRecords(req[p]) :
       req' = [req EXCEPT ![p] =
         [Called(req[p], "select") EXCEPT !.cloud = cloud, !.pc = "reshape"]]
  /\ UNCHANGED <<store, sent, clock, prev, client>>

(* The handler resumes with the rows: they are reshaped and the response   *)
(* is sent, the download's with the time it is now as syncTime.            *)
(* JSON.parse throwing on a row lands in catch.                            *)
ReshapeRecords(p) ==
  /\ req[p].pc = "reshape"
  /\ LET r == req[p]
     IN  req' = [req EXCEPT ![p] =
           IF \E k \in DOMAIN r.cloud : FormatThrows(store[r.cloud[k]])
             THEN Done(r, Catch(r.endpoint, "SyntaxError", "unexpected end of JSON input"))
             ELSE Done(r, RecordsResponse(r, r.cloud, clock))]
  /\ UNCHANGED <<store, sent, clock, prev, client>>

(* What the catch block leaves behind when a statement is rejected. *)
Rejected(r) ==
  Done([r EXCEPT !.failed = TRUE],
       Catch(r.endpoint, "Error", "connection lost"))

(* The batch run in a transaction: a rejected statement undoes its rows. *)
StoreFailureRollback(p) ==
  /\ req[p].pc \in {"check", "insert", "query"}
  /\ req' = [req EXCEPT ![p] =
       Rejected(Called(req[p], IF req[p].pc = "insert" THEN "insert" ELSE "select"))]
  /\ store' = SubSeq(store, 1, Len(store) - Cardinality(req[p].inserted))
  /\ sent' = SubSeq(sent, 1, Len(sent) - Cardinality(req[p].inserted))
  /\ UNCHANGED <<clock, prev, client>>

(* The rejection thrown outside the try block: nothing answers. *)
StoreFailureEscapes(p) ==
  /\ req[p].pc \in {"check", "insert", "query"}
  /\ req' = [req EXCEPT ![p] =
       [Called(req[p], IF req[p].pc = "insert" THEN "insert" ELSE "select")
          EXCEPT !.pc = "crashed", !.failed = TRUE]]
  /\ UNCHANGED <<store, sent, clock, prev, client>>

(* The statement the handler awaits is rejected by the store. *)
StoreFailure(p) ==
  /\ req[p].pc \in {"check", "insert", "query"}
  /\ req' = [req EXCEPT ![p] =
       Rejected(Called(req[p], IF req[p].pc = "insert" THEN "insert" ELSE "select"))]
  /\ UNCHANGED <<store, sent, clock, prev, client>>

(* The response has gone out; the worker is free again. *)
Reply(p) ==
  /\ req[p].pc = "done"
  /\ prev' = IF req[p].action = "upload" /\ req[p].resp.success
               THEN [upload |-> TRUE, userId |-> req[p].userId,
                     records |-> req[p].records]
               ELSE NoPrev
  /\ req' = [req EXCEPT ![p] = Idle]
  /\ UNCHANGED <<store, sent, clock, client>>

(* Time passes. *)
Tick ==
  /\ clock < MaxClock
  /\ clock' = clock + 1
  /\ UNCHANGED <<store, sent, req, prev, client>>

(* Requests are served one at a time by the worker p1. *)
Next ==
  \/ ReceiveSync("p1")
  \/ ReceiveRecords("p1")
  \/ CheckExisting("p1")
  \/ InsertRecord("p1")
  \/ QueryRecords("p1")
  \/ ReshapeRecords("p1")
  \/ StoreFailure("p1")
  \/ Reply("p1")
  \/ Tick

Spec == Init /\ [][Next]_vars

TypeOK ==
  /\ clock \in 1..MaxClock
  /\ Len(sent) = Len(store)
  /\ \A p \in Procs :
       req[p].pc \in {"idle", "check", "insert", "query", "reshape", "done"}

(***************************************************************************)
(* Requests served concurrently by two workers: uploads of the client's    *)
(* owner, one by each worker, and the downloads of the client, which       *)
(* passes the                                                              *)
(* syncTime of its last download as lastSyncTime of the next.  The table   *)
(* is kept to MaxStore rows by not admitting an upload that could take it  *)
(* beyond.                                                                 *)
(***************************************************************************)
MaxStore == 3

(* The records of an upload in flight that may still be inserted. *)
Pending(r) ==
  IF r.pc \in {"check", "insert"} THEN Len(r.records) - r.i + 1 ELSE 0

RECURSIVE SumPending(_)
SumPending(ps) ==
  IF ps = {} THEN 0
  ELSE LET q == CHOOSE q \in ps : TRUE
       IN  Pending(req[q]) + SumPending(ps \ {q})

(* An upload of a non-empty batch arrives from a device of the client's     *)
(* owner.                                                                  *)
ReceiveUpload(p) ==
  /\ \E batch \in NonEmptyBatches :
       /\ Len(store) + SumPending(Procs) + Len(batch) <= MaxStore
       /\ ReceiveSyncFrom(p, {"POST"}, {client.token}, {"upload"},
                          {<<"array", batch>>}, {0})

(* The client sends its next download. *)
ClientDownload(p) ==
  /\ \A q \in Procs : req[q].action # "download"
  /\ ReceiveSyncFrom(p, {"POST"}, {client.token}, {"download"},
                     {<<"missing", <<>>>>}, {client.syncTime})

(* The client gets the response of its download: on success it keeps the   *)
(* records and persists syncTime.                                          *)
ClientReceive(p) ==
  /\ req[p].pc = "done"
  /\ req[p].action = "download"
  /\ client' = IF req[p].resp.success
                 THEN [client EXCEPT
                         !.syncTime = req[p].resp.data.syncTime,
                         !.received = @ \cup { req[p].cloud[k] : k \in DOMAIN req[p].cloud }]
                 ELSE client
  /\ req' = [req EXCEPT ![p] = Idle]
  /\ UNCHANGED <<store, sent, clock, prev>>

ConcNext ==
  \/ \E p \in Procs :
       \/ ReceiveUpload(p)
       \/ ClientDownload(p)
       \/ CheckExisting(p)
       \/ InsertRecord(p)
       \/ QueryRecords(p)
       \/ ReshapeRecords(p)
       \/ StoreFailure(p)
       \/ ClientReceive(p)
  \/ Tick

ConcSpec == Init /\ [][ConcNext]_vars

(***************************************************************************)
(* Vocabulary of the properties.                                           *)
(***************************************************************************)
Answered(r) == r.pc = "done"

Authenticated(r) == r.token \in Owners

(* An upload (or download) request that got past the method check. *)
IsUpload(r) == r.endpoint = "sync" /\ r.method = "POST" /\ r.action = "upload"

IsDownload(r) == r.endpoint = "sync" /\ r.method = "POST" /\ r.action = "download"

IsListing(r) == r.endpoint = "records" /\ r.method = "GET"

(* The rows of the table that were written for the owner. *)
RowsOf(owner) == { i \in DOMAIN store : sent[i].by = owner }

(* The set of the elements of a sequence. *)
Range(s) == { s[k] : k \in DOMAIN s }

(***************************************************************************)
(* C1  Idempotent upload.  When the request answered last was a successful *)
(* upload of a batch by an owner and the next request is an upload of the  *)
(* same batch by the same owner, the store is left as it was found, and    *)
(* (no statement having been rejected by the store) the response is a      *)
(* success with uploaded = 0 and skipped = the batch size.                 *)
(***************************************************************************)
SecondUpload(r) ==
  /\ Answered(r) /\ IsUpload(r) /\ Authenticated(r)
  /\ prev.upload /\ prev.userId = r.userId
  /\ r.recordsKind = "array" /\ r.records = prev.records

C1_IdempotentUpload ==
  \A p \in Procs :
    SecondUpload(req[p]) =>
      /\ store = req[p].store0
      /\ ~req[p].failed =>
           /\ req[p].resp.success
           /\ req[p].resp.data.kind = "counts"
           /\ req[p].resp.data.uploaded = 0
           /\ req[p].resp.data.skipped = Len(req[p].records)

C1_Witness ==
  \E p \in Procs :
    /\ SecondUpload(req[p])
    /\ Len(req[p].records) = MaxBatch
    /\ req[p].resp.success
    /\ req[p].resp.data.skipped = MaxBatch

(***************************************************************************)
(* C2  Cross-owner isolation on read.  Every row a successful download or  *)
(* listing returns was written for the owner the request is authenticated  *)
(* as, and the response holds these rows' records and no other.            *)
(***************************************************************************)
IsRead(r) ==
  /\ Answered(r) /\ r.resp.success
  /\ r.resp.data.kind \in {"download", "list"}

C2_CrossOwnerIsolation ==
  \A p \in Procs :
    IsRead(req[p]) =>
      /\ Authenticated(req[p])
      /\ Len(req[p].resp.data.records) = Len(req[p].cloud)
      /\ \A k \in DOMAIN req[p].cloud :
           /\ req[p].cloud[k] \in DOMAIN store
           /\ sent[req[p].cloud[k]].by = req[p].token
           /\ store[req[p].cloud[k]].user_id = req[p].token
           /\ req[p].resp.data.records[k].id = store[req[p].cloud[k]].record_id

C2_Witness ==
  \E p \in Procs :
    /\ IsRead(req[p])
    /\ req[p].token = "B"
    /\ req[p].cloud # <<>>
    /\ \E i \in DOMAIN store : sent[i].by = "A" /\ sent[i].record.id # ""

(***************************************************************************)
(* C3  Unauthenticated rejection precedes store access.  An upload,        *)
(* download or listing request whose credential is missing or fails        *)
(* verification is answered at once with success = false, has sent no      *)
(* statement to the store and has left the store as it was; and a request  *)
(* that has sent a statement to the store carries a verified credential.   *)
(***************************************************************************)
BadCredential(r) ==
  /\ r.pc # "idle"
  /\ (IsUpload(r) \/ IsDownload(r) \/ IsListing(r))
  /\ ~Authenticated(r)

C3_UnauthenticatedBeforeStore ==
  \A p \in Procs :
    /\ BadCredential(req[p]) =>
         /\ Answered(req[p])
         /\ req[p].resp.body /\ ~req[p].resp.success
         /\ req[p].calls = <<>>
         /\ store = req[p].store0
    /\ req[p].calls # <<>> => Authenticated(req[p])

C3_Witness ==
  \E p \in Procs :
    /\ BadCredential(req[p])
    /\ req[p].token = "expired"
    /\ IsUpload(req[p])
    /\ req[p].records # <<>>
    /\ ~req[p].resp.success


(***************************************************************************)
(* C4  Incremental filter.  A successful download carrying lastSyncTime =  *)
(* T > 0 returns exactly the caller's rows whose updated_at is greater     *)
(* than T, each once, and a download without it returns all the caller's   *)
(* rows; so of two rows of the caller written no later than T and later    *)
(* than T, it returns the second and not the first.                        *)
(***************************************************************************)
IsDownloaded(r) == IsRead(r) /\ r.resp.data.kind = "download"

C4_IncrementalFilter ==
  \A p \in Procs :
    IsDownloaded(req[p]) =>
      LET T == req[p].lastSyncTime
          mine == RowsOf(req[p].token)
          got == Range(req[p].cloud)
      IN  /\ Len(req[p].cloud) = Cardinality(got)
          /\ Len(req[p].resp.data.records) = Len(req[p].cloud)
          /\ T = 0 => got = mine
          /\ T # 0 => got = { i \in mine : store[i].updated_at > T }
          /\ \A i, j \in mine :
               T # 0 /\ store[i].updated_at <= T /\ T < store[j].updated_at
                 => j \in got /\ i \notin got

C4_Witness ==
  \E p \in Procs :
    /\ IsDownloaded(req[p])
    /\ req[p].lastSyncTime = 1
    /\ Len(req[p].resp.data.records) = 1
    /\ \E i, j \in RowsOf(req[p].token) :
         /\ sent[i].record.id # "" /\ sent[j].record.id # ""
         /\ store[i].updated_at = 1 /\ store[j].updated_at = 2
         /\ req[p].cloud = <<j>>

(***************************************************************************)
(* C5  Upload/download round trip.  An authenticated upload of a batch     *)
(* succeeds unless the store rejects a statement, also when answers or     *)
(* result is absent from a record; every record a successful download or   *)
(* listing returns for a row an upload wrote carries the uploaded answers  *)
(* and result, or [] and {} where they were absent; and a successful       *)
(* download without lastSyncTime returns every row written for the caller. *)
(***************************************************************************)
RoundTripped(uploaded, empty) ==
  IF uploaded = Undefined THEN empty ELSE uploaded

C6_MalformedPayloadResilience ==
  \A p \in Procs :
    ( /\ Answered(req[p]) /\ IsDownload(req[p]) /\ Authenticated(req[p])
      /\ ~req[p].failed )
    => /\ req[p].resp.success
       /\ Len(req[p].resp.data.records) = Len(req[p].cloud)
       /\ \A k \in DOMAIN req[p].cloud :
            FormatThrows(store[req[p].cloud[k]]) =>
              /\ req[p].resp.data.records[k].answers = Arr(<<>>)
              /\ req[p].resp.data.records[k].result = Obj(<<>>)

(***************************************************************************)
(* C7  Upload input validation, as claimed: an authenticated upload whose  *)
(* records are missing, not a sequence or an empty sequence is answered    *)
(* with a failure and sends no statement to the store.                     *)
(***************************************************************************)
C7_UploadInputValidation ==
  \A p \in Procs :
    ( /\ req[p].pc # "idle" /\ IsUpload(req[p]) /\ Authenticated(req[p])
      /\ (req[p].recordsKind # "array" \/ req[p].records = <<>>) )
    => /\ Answered(req[p])
       /\ ~req[p].resp.success
       /\ req[p].resp.status = 400
       /\ req[p].calls = <<>>

(***************************************************************************)
(* C8  Owner-scoped dedup, as claimed: a record is skipped only when a row *)
(* of the caller has its external id, so after a successful upload every   *)
(* external id of the batch has a row owned by the caller.                 *)
(***************************************************************************)
C8_OwnerScopedDedup ==
  \A p \in Procs :
    ( /\ Answered(req[p]) /\ IsUpload(req[p]) /\ Authenticated(req[p])
      /\ req[p].resp.success )
    => \A k \in DOMAIN req[p].records :
         \E i \in DOMAIN store :
           /\ store[i].record_id = req[p].records[k].id
           /\ store[i].user_id = req[p].userId

(***************************************************************************)
(* C9  Fail-closed credential errors, as claimed: a request whose token is *)
(* missing, malformed or expired is answered 401 (not as a server failure) *)
(* with a generic message and no error text.                               *)
(***************************************************************************)
C9_FailClosedCredentialErrors ==
  \A p \in Procs :
    BadCredential(req[p]) =>
      /\ Answered(req[p])
      /\ req[p].resp.status = 401
      /\ ~req[p].resp.success
      /\ req[p].resp.message = "invalid token"
      /\ req[p].resp.error = ""

(***************************************************************************)
(* C10  Partial batch failure.  When the store rejects a statement sent    *)
(* for record k of an upload, the rows inserted for the records before k   *)
(* are in the store, appended to what the request found; the statements    *)
(* sent are those of records 1..k and no other; and the response is a      *)
(* failure without uploaded/skipped counts.                                *)
(***************************************************************************)
FailedUpload(r) == Answered(r) /\ IsUpload(r) /\ r.failed

C10_PartialBatchFailure ==
  \A p \in Procs :
    FailedUpload(req[p]) =>
      LET r == req[p]
          k == r.i
          last == r.calls[Len(r.calls)]
      IN  /\ k \in DOMAIN r.records
          /\ Len(store) = Len(r.store0) + r.successCount
          /\ SubSeq(store, 1, Len(r.store0)) = r.store0
          /\ r.inserted = (Len(r.store0) + 1)..Len(store)
          /\ \A i \in r.inserted :
               /\ store[i].user_id = r.userId
               /\ \E j \in 1..(k - 1) : store[i].record_id = r.records[j].id
          /\ r.successCount + r.skipCount = k - 1
          /\ last[1] = k
          /\ \A c \in DOMAIN r.calls : r.calls[c][1] <= k
          /\ Len(r.calls) = 2 * r.successCount + r.skipCount
                              + (IF last[2] = "insert" THEN 2 ELSE 1)
          /\ ~r.resp.success
          /\ r.resp.body
          /\ r.resp.data = NoData

C10_Witness ==
  \E p \in Procs :
    /\ FailedUpload(req[p])
    /\ req[p].i = 2
    /\ req[p].successCount = 1
    /\ Len(store) = Len(req[p].store0) + 1


(***************************************************************************)
(* C11  Non-atomic dedup race.  Under concurrent uploads every record an   *)
(* upload reports as uploaded has a row of its own, whatever the other     *)
(* upload did between this one's existence check and its insert: the rows  *)
(* of two uploads are distinct, each carries its uploader and an id of its *)
(* batch, and uploaded counts them.  So when both existence checks of two  *)
(* uploads of the same external id see no row, both insert, two rows with  *)
(* that id are stored and both uploads report it as uploaded (the state    *)
(* of C11_Witness).                                                        *)
(***************************************************************************)
UploadedOk(r) == Answered(r) /\ IsUpload(r) /\ r.resp.success

C11_NonAtomicDedupRace ==
  /\ \A p \in Procs :
       UploadedOk(req[p]) =>
         /\ req[p].resp.data.uploaded = Cardinality(req[p].inserted)
         /\ req[p].resp.data.uploaded + req[p].resp.data.skipped
              = Len(req[p].records)
         /\ \A i \in req[p].inserted :
              /\ i \in DOMAIN store
              /\ store[i].user_id = req[p].userId
              /\ \E k \in DOMAIN req[p].records :
                   store[i].record_id = req[p].records[k].id
  /\ \A p, q \in Procs :
       p # q => req[p].inserted \cap req[q].inserted = {}

C11_Witness ==
  /\ \A p \in Procs :
       /\ UploadedOk(req[p])
       /\ Len(req[p].records) = 1
       /\ req[p].records[1].id = "x"
       /\ req[p].resp.data.uploaded = 1
       /\ req[p].calls = << <<1, "select">>, <<1, "insert">> >>
  /\ Cardinality({ i \in DOMAIN store : store[i].record_id = "x" }) = 2


(***************************************************************************)
(* C12  No uncaught failure.  A handler is always at one of its awaits or  *)
(* has answered; it has sent no response before it is done and does not    *)
(* change its response afterwards (exactly one response); every response   *)
(* that is not a 200 carries success = false and a message; and a handler  *)
(* that has not answered can take its next step, each step bringing it     *)
(* nearer to its response (StepsLeft decreases), so that it terminates.    *)
(***************************************************************************)
InFlight(r) == r.pc \notin {"idle", "done"}

(* The most steps the handler may still take before it answers. *)
StepsLeft(r) ==
  IF r.pc = "check" THEN 2 * (Len(r.records) - r.i) + 2
  ELSE IF r.pc = "insert" THEN 2 * (Len(r.records) - r.i) + 1
  ELSE IF r.pc = "query" THEN 2
  ELSE IF r.pc = "reshape" THEN 1
  ELSE 0

WellFormedResponse(resp) ==
  /\ resp.status \in {200, 400, 401, 405, 500}
  /\ resp.status # 200 =>
       resp.body /\ ~resp.success /\ resp.message # "" /\ resp.data = NoData
  /\ resp.status = 200 /\ resp.body => resp.success

C12_Handled ==
  \A p \in Procs :
    /\ req[p].pc \in {"idle", "check", "insert", "query", "reshape", "done"}
    /\ InFlight(req[p]) => req[p].resp = NoResponse
    /\ req[p].pc \in {"check", "insert"} => req[p].i \in DOMAIN req[p].records
    /\ Answered(req[p]) => WellFormedResponse(req[p].resp)

C12_OneResponse ==
  \A p \in Procs :
    /\ Answered(req[p]) => req'[p] = req[p] \/ req'[p] = Idle
    /\ InFlight(req[p]) /\ req'[p] # req[p] =>
         /\ req'[p].pc # "idle"
         /\ StepsLeft(req'[p]) < StepsLeft(req[p])

C12_NoUncaughtFailure == []C12_Handled /\ [][C12_OneResponse]_vars

C12_Witness ==
  \E p \in Procs :
    /\ Answered(req[p])
    /\ IsUpload(req[p])
    /\ req[p].failed
    /\ req[p].i = 2
    /\ req[p].resp.status = 500
    /\ ~req[p].resp.success
    /\ req[p].resp.message = "server error"


(***************************************************************************)
(* C13  Download ordering.  The records of a successful download (and of a *)
(* listing) come ordered by test_date descending: of every two adjacent    *)
(* records the earlier one's date is not before the later one's, whatever  *)
(* the order the rows were uploaded in.                                    *)
(***************************************************************************)
C13_DownloadOrdering ==
  \A p \in Procs :
    IsRead(req[p]) =>
      LET records == req[p].resp.data.records
      IN  \A k \in DOMAIN records :
            k < Len(records) => records[k].date >= records[k + 1].date

C13_Witness ==
  \E p \in Procs :
    /\ IsDownloaded(req[p])
    /\ Len(req[p].cloud) = 2
    /\ req[p].cloud[1] > req[p].cloud[2]
    /\ req[p].resp.data.records[1].date = 2
    /\ req[p].resp.data.records[2].date = 1


(***************************************************************************)
(* C14  Append-only store.  No step deletes or changes a row: the table    *)
(* after a step begins with the table before it.  The only step that       *)
(* changes the table is the insert of an authenticated upload, which       *)
(* appends one row, of the caller, for the record whose existence check    *)
(* it has just made, an external id no row has; so a skipped record, a     *)
(* download, a listing and a rejected request leave the table as it was.   *)
(***************************************************************************)
C14_Step ==
  /\ Len(store') >= Len(store)
  /\ SubSeq(store', 1, Len(store)) = store
  /\ store' # store =>
       \E p \in Procs :
         LET r == req[p]
         IN  /\ r.pc = "insert" /\ IsUpload(r) /\ Authenticated(r)
             /\ r.calls[Len(r.calls)] = <<r.i, "select">>
             /\ req'[p].calls = Append(r.calls, <<r.i, "insert">>)
             /\ \A i \in DOMAIN store : store[i].record_id # r.records[r.i].id
             /\ Len(store') = Len(store) + 1
             /\ store'[Len(store')].record_id = r.records[r.i].id
             /\ store'[Len(store')].user_id = r.userId

C14_AppendOnlyStore == [][C14_Step]_vars

C14_Witness ==
  \E p \in Procs :
    /\ Answered(req[p]) /\ IsUpload(req[p])
    /\ req[p].resp.success
    /\ req[p].resp.data.uploaded = 1
    /\ req[p].resp.data.skipped = 1
    /\ req[p].store0 # <<>>
    /\ store = Append(req[p].store0, store[Len(store)])


(***************************************************************************)
(* C15  High-water-mark completeness, as claimed: the client that passes   *)
(* the syncTime of each download as lastSyncTime of the next misses no     *)
(* row of its owner.  A later download asks only for rows with updated_at  *)
(* greater than the syncTime persisted, so every row of the owner stamped  *)
(* before that syncTime must already have been received, also a row        *)
(* inserted between a download's query and its syncTime.                   *)
(***************************************************************************)
C15_HighWaterMarkCompleteness ==
  \A i \in RowsOf(client.token) :
    store[i].updated_at < client.syncTime => i \in client.received


(***************************************************************************)
(* C16  Sequential uniqueness.  When the requests are served one after the *)
(* other, no two rows of the table have the same external id, in every     *)
(* state: also within and after a batch that holds an id twice, and after  *)
(* a batch that a rejected statement cut short and that was sent again.    *)
(***************************************************************************)
C16_SequentialUniqueness ==
  \A i, j \in DOMAIN store :
    i # j => store[i].record_id # store[j].record_id

C16_Witness ==
  \E p \in Procs :
    /\ UploadedOk(req[p])
    /\ Len(req[p].records) = 2
    /\ req[p].records[1].id = req[p].records[2].id
    /\ req[p].resp.data.uploaded = 1
    /\ req[p].resp.data.skipped = 1
    /\ Len(store) = Len(req[p].store0) + 1

====
